---- MODULE Spec2Model ----
(***************************************************************************)
(* Model of pyapril/RDTools.py: the dynamic-range compression performed by *)
(* export_rd_matrix_img and plot_rd_matrix, and the slice extraction of    *)
(* plot_Doppler_slice and plot_range_slice.                                *)
(*                                                                         *)
(* Numbers.  A complex sample is a record [k, re, im, den] standing for    *)
(* (re + j*im)/den when k = "fin", and for nan / +inf / -inf otherwise.    *)
(* A linear real (a magnitude, a power, the noise floor) is [k, n, d],     *)
(* the rational n/d.  A decibel value is [k, v] with v in whole dB: the    *)
(* logarithm is rounded down to the 1 dB grid, as a floating-point log10   *)
(* is rounded to its grid.  Comparisons and arithmetic on nan and the      *)
(* infinities follow IEEE-754, which is what numpy computes with.          *)
(***************************************************************************)
EXTENDS Integers, Sequences, FiniteSets, TLC

\* ------------------------------------------------------------ bounds ----
MaxAgain == 1
MaxTraces == 3
MaxFigs == 2

\* ------------------------------------------------- extended decibels ----
F(v) == [k |-> "fin", v |-> v]
NaN == [k |-> "nan", v |-> 0]
PosInf == [k |-> "pinf", v |-> 0]
NegInf == [k |-> "ninf", v |-> 0]
None == [k |-> "none", v |-> 0]

\* x < y on floats: every comparison with nan is False
Lt(x, y) ==
  IF x.k = "nan" \/ y.k = "nan" THEN FALSE
  ELSE IF x.k = "ninf" THEN y.k # "ninf"
  ELSE IF x.k = "pinf" THEN FALSE
  ELSE IF y.k = "pinf" THEN TRUE
  ELSE IF y.k = "ninf" THEN FALSE
  ELSE x.v < y.v

\* unary minus
Neg(x) ==
  IF x.k = "fin" THEN F(0 - x.v)
  ELSE IF x.k = "pinf" THEN NegInf
  ELSE IF x.k = "ninf" THEN PosInf
  ELSE NaN

\* x - y on floats
Minus(x, y) ==
  IF x.k = "nan" \/ y.k = "nan" THEN NaN
  ELSE IF x.k = "fin" /\ y.k = "fin" THEN F(x.v - y.v)
  ELSE IF x.k = "fin" THEN Neg(y)
  ELSE IF y.k = "fin" THEN x
  ELSE IF x.k = y.k THEN NaN
  ELSE x

\* ----------------------------------------------------- linear reals -----
R(n, d) == [k |-> "fin", n |-> n, d |-> d]
RNaN == [k |-> "nan", n |-> 0, d |-> 1]
RInf == [k |-> "pinf", n |-> 0, d |-> 1]

RECURSIVE GCD(_, _)
GCD(a, b) == IF b = 0 THEN a ELSE GCD(b, a % b)

Reduce(r) ==
  IF r.k # "fin" THEN r
  ELSE LET g == GCD(r.n, r.d) IN IF g = 0 THEN r ELSE R(r.n \div g, r.d \div g)

\* x < y on non-negative linear reals
RLt(x, y) ==
  IF x.k = "nan" \/ y.k = "nan" THEN FALSE
  ELSE IF x.k = "pinf" THEN FALSE
  ELSE IF y.k = "pinf" THEN TRUE
  ELSE x.n * y.d < y.n * x.d

\* x + y
RAdd(x, y) ==
  IF x.k = "nan" \/ y.k = "nan" THEN RNaN
  ELSE IF x.k = "pinf" \/ y.k = "pinf" THEN RInf
  ELSE IF x.d = y.d THEN R(x.n + y.n, x.d)
  ELSE Reduce(R(x.n * y.d + y.n * x.d, x.d * y.d))

\* x / c for a positive integer c
RDivInt(x, c) == IF x.k = "fin" THEN R(x.n, x.d * c) ELSE x

\* ---------------------------------------------------- complex samples ---
Z(re, im) == [k |-> "fin", re |-> re, im |-> im, den |-> 1]
ZNaN == [k |-> "nan", re |-> 0, im |-> 0, den |-> 1]

IAbs(i) == IF i < 0 THEN 0 - i ELSE i

ISqrt(n) == CHOOSE r \in 0..n : r * r <= n /\ (r + 1) * (r + 1) > n

\* np.abs(x)
Abs(s) ==
  IF s.k = "nan" THEN RNaN
  ELSE IF s.k # "fin" THEN RInf
  ELSE IF s.im = 0 THEN R(IAbs(s.re), s.den)
  ELSE IF s.re = 0 THEN R(IAbs(s.im), s.den)
  ELSE R(ISqrt(s.re * s.re + s.im * s.im), s.den)

\* x ** 2
Sq(r) == IF r.k = "fin" THEN R(r.n * r.n, r.d * r.d) ELSE r

\* thresholds 1000 * 10^(j/10), j = 0..9, of the 1 dB steps inside a decade
DecibelSteps == <<1000, 1259, 1585, 1995, 2512, 3162, 3981, 5012, 6310, 7943>>

\* 10*log10(n/d) rounded down to whole dB, n > 0, d > 0
RECURSIVE DBf(_, _)
DBf(n, d) ==
  IF n >= 10 * d THEN 10 + DBf(n, 10 * d)
  ELSE IF n < d THEN DBf(10 * n, d) - 10
  ELSE LET js == {j \in 1..10 : DecibelSteps[j] * d <= 1000 * n}
       IN  Cardinality(js) - 1

\* 10 * np.log10(r)
TenLog10(r) ==
  IF r.k = "nan" THEN NaN
  ELSE IF r.k = "pinf" THEN PosInf
  ELSE IF r.n = 0 THEN NegInf
  ELSE F(DBf(r.n, r.d))

\* a real dB value read back as a sample (a real ndarray given as rd_matrix)
AsSample(x) == [k |-> x.k, re |-> x.v, im |-> 0, den |-> 1]
AsReal(s) == [k |-> s.k, v |-> s.re]

\* x / m for a sample x and a linear real m
ZDiv(s, m) ==
  IF s.k = "nan" \/ m.k = "nan" THEN ZNaN
  ELSE IF m.k = "pinf" THEN (IF s.k = "fin" THEN Z(0, 0) ELSE ZNaN)
  ELSE IF s.k # "fin" THEN s
  ELSE IF m.n = 0
       THEN (IF s.re = 0 /\ s.im = 0 THEN ZNaN
             ELSE [k |-> "pinf", re |-> 0, im |-> 0, den |-> 1])
  ELSE [k |-> "fin", re |-> s.re * m.d, im |-> s.im * m.d, den |-> s.den * m.n]

\* ----------------------------------------------------------- matrices ---
Cells(nD, nR) == (0..(nD - 1)) \X (0..(nR - 1))
Matrix(nD, nR, a) == [nD |-> nD, nR |-> nR, a |-> a]
NoMatrix == Matrix(0, 0, <<>>)

MapM(m, Op(_)) == Matrix(m.nD, m.nR, [c \in Cells(m.nD, m.nR) |-> Op(m.a[c])])

Values(m) == {m.a[c] : c \in Cells(m.nD, m.nR)}

\* np.max(np.abs(rd_matrix)): nan if any element is nan
MaxAbs(m) ==
  LET vs == {Reduce(Abs(s)) : s \in Values(m)}
  IN  IF RNaN \in vs THEN RNaN
      ELSE CHOOSE x \in vs : \A y \in vs : ~RLt(x, y)

\* np.max(rd_matrix) of a dB matrix: nan if any element is nan
MaxDB(m) ==
  LET vs == Values(m)
  IN  IF NaN \in vs THEN NaN
      ELSE CHOOSE x \in vs : \A y \in vs : ~Lt(x, y)

\* rd_matrix = 10 * np.log10(np.abs(rd_matrix) ** 2)
ToDB(s) == TenLog10(Sq(Abs(s)))
DBMatrix(m) == MapM(m, ToDB)

\* rd_matrix -= np.max(rd_matrix)
SubtractAll(m, mx) == Matrix(m.nD, m.nR, [c \in Cells(m.nD, m.nR) |-> Minus(m.a[c], mx)])
\* rd_matrix -= np.min(rd_matrix), the peak subtraction with the wrong extreme
SubtractMinimum(m) ==
  SubtractAll(m, IF NaN \in Values(m) THEN NaN
                 ELSE CHOOSE x \in Values(m) : \A y \in Values(m) : ~Lt(y, x))

PeakSubtract(m) == SubtractAll(m, MaxDB(m))

\* the clamp with its inner loop one column short: range(shape[1] - 1)
FloorClampShortLoop(m, dyn) ==
  Matrix(m.nD, m.nR, [c \in Cells(m.nD, m.nR) |->
      IF c[2] < m.nR - 1 /\ Lt(m.a[c], Neg(dyn)) THEN Neg(dyn) ELSE m.a[c]])

\* the clamp with its comparison turned round: rd_matrix[i, j] > -dyn_range
FloorClampFlipped(m, dyn) ==
  Matrix(m.nD, m.nR, [c \in Cells(m.nD, m.nR) |->
      IF Lt(Neg(dyn), m.a[c]) THEN Neg(dyn) ELSE m.a[c]])

\* for i, j: if rd_matrix[i, j] < -dyn_range: rd_matrix[i, j] = -dyn_range
ClampAll(m, floor) ==
  Matrix(m.nD, m.nR, [c \in Cells(m.nD, m.nR) |->
      IF Lt(m.a[c], floor) THEN floor ELSE m.a[c]])
FloorClamp(m, dyn) == ClampAll(m, Neg(dyn))

\* rd_matrix /= np.max(np.abs(rd_matrix))
DivideAll(m, mx) == Matrix(m.nD, m.nR, [c \in Cells(m.nD, m.nR) |-> ZDiv(m.a[c], mx)])
ScaleByPeak(m) == DivideAll(m, MaxAbs(m))

\* ------------------------------------------- dynamic range compression --
range_cell_index == 20
export_doppler_cell_index == 30
plot_doppler_cell_index == 10
window_length == 5
window_width == 5

\* numpy indexing: i is valid on an axis of size n iff -n <= i < n
IndexOk(i, n) == 0 - n <= i /\ i < n
Index(i, n) == IF i < 0 THEN i + n ELSE i

\* the (wi, wj) visited by the two nested loops, wi outermost, in order
WindowOffsets ==
  [k \in 1..((2 * window_length + 1) * (2 * window_width + 1)) |->
     <<((k - 1) \div (2 * window_width + 1)) - window_length,
       ((k - 1) % (2 * window_width + 1)) - window_width>>]

\* does every rd_matrix[doppler_cell_index + wj, range_cell_index + wi] exist
WindowInBounds(m, doppler_cell_index) ==
  \A k \in DOMAIN WindowOffsets :
     /\ IndexOk(doppler_cell_index + WindowOffsets[k][2], m.nD)
     /\ IndexOk(range_cell_index + WindowOffsets[k][1], m.nR)

\* the terms lo..hi of noise_floor += np.abs(rd_matrix[...]) ** 2, summed
\* (exact rational addition is associative, so the order is immaterial)
RECURSIVE NoiseSum(_, _, _, _)
NoiseSum(m, doppler_cell_index, lo, hi) ==
  IF lo = hi
  THEN LET wi == WindowOffsets[lo][1]
           wj == WindowOffsets[lo][2]
           c  == <<Index(doppler_cell_index + wj, m.nD), Index(range_cell_index + wi, m.nR)>>
       IN  Reduce(Sq(Abs(m.a[c])))
  ELSE LET mid == (lo + hi) \div 2
       IN  RAdd(NoiseSum(m, doppler_cell_index, lo, mid),
                NoiseSum(m, doppler_cell_index, mid + 1, hi))

\* noise_floor /= cell_counter ; dyn_range = -10*np.log10(noise_floor)
EstimateDynRange(m, doppler_cell_index) ==
  LET cell_counter == Len(WindowOffsets)
      noise_floor  == Reduce(RDivInt(RAdd(R(0, 1), NoiseSum(m, doppler_cell_index, 1, cell_counter)), cell_counter))
  IN  Neg(TenLog10(noise_floor))

\* lines 106-112 / 239-245 on the matrix m with the dynamic range dyn; sub is
\* the local array after the peak subtraction, local the one after the clamp
Clamped(caller, sub, dyn_range) ==
  [caller |-> caller, sub |-> sub, local |-> FloorClamp(sub, dyn_range),
   dyn |-> dyn_range, raised |-> FALSE]
Compress(caller, m, dyn_range) == Clamped(caller, PeakSubtract(DBMatrix(m)), dyn_range)

\* the same block with its in-place scaling and its loops forgotten in favour
\* of an array that is normalised in place (rd_matrix[:] = ...)
DynamicRangeCompressionInPlace(m, dyn_range, doppler_cell_index) ==
  CHOOSE q \in {[r EXCEPT !.caller = MapM(r.local, AsSample)] :
                 r \in {Compress(m, m, IF dyn_range = None THEN F(20) ELSE dyn_range)}} : TRUE

\* the same block with the window indices clipped to the matrix, so that a
\* window outside the matrix yields a nan dynamic range instead of raising
DynamicRangeCompressionClipped(m, dyn_range, doppler_cell_index) ==
  IF dyn_range = None
  THEN CHOOSE r \in {
           IF ~WindowInBounds(m, doppler_cell_index)
           THEN Compress(scaled, scaled, NaN)
           ELSE Compress(scaled, scaled, EstimateDynRange(scaled, doppler_cell_index))
         : scaled \in {ScaleByPeak(m)}} : TRUE
  ELSE Compress(m, m, dyn_range)

\* The "Dynamic range compression" block shared by export_rd_matrix_img and
\* plot_rd_matrix.  caller: the array object the caller passed, after the call;
\* local: the array the name rd_matrix is bound to when the block ends.
DynamicRangeCompression(m, dyn_range, doppler_cell_index) ==
  IF dyn_range = None
  THEN CHOOSE r \in {
           IF ~WindowInBounds(m, doppler_cell_index)
           THEN [caller |-> scaled, sub |-> NoMatrix, local |-> NoMatrix,
                 dyn |-> None, raised |-> TRUE]
           ELSE Compress(scaled, scaled, EstimateDynRange(scaled, doppler_cell_index))
         : scaled \in {ScaleByPeak(m)}} : TRUE
  ELSE Compress(m, m, dyn_range)

\* ---------------------------------------------------------- slices -----
\* An optional keyword argument is the empty set (absent, None) or {value}.
\* A number passed as bistat_range / Doppler_freq is [ty, v]: a Python int or
\* a float of value v.  Distances are floats on a grid of 1 m: a quotient is
\* rounded to the nearest grid point (ties to even), as a double is to its own.
The(s) == CHOOSE x \in s : TRUE
Int_(v) == [ty |-> "int", v |-> v]
Float_(v) == [ty |-> "float", v |-> v]

\* 3*10**8
LightSpeed == 300000000

\* a / b in floating point, a >= 0, b > 0
FDiv(a, b) ==
  LET q == a \div b
      r == a % b
  IN  IF 2 * r > b \/ (2 * r = b /\ q % 2 = 1) THEN q + 1 ELSE q

\* np.argmin(dist) for dist[i], i in 0..n-1: the first index of the minimum
ArgMin(n, dist(_)) ==
  CHOOSE i \in 0..(n - 1) :
     /\ \A j \in 0..(n - 1) : dist(i) <= dist(j)
     /\ \A j \in 0..(i - 1) : dist(j) > dist(i)

\* np.linspace(-max_Doppler, max_Doppler, n)[i] as the rational <<num, den>>
Linspace(max_Doppler, n, i) ==
  IF n = 1 THEN <<0 - max_Doppler, 1>>
  ELSE <<2 * max_Doppler * i - max_Doppler * (n - 1), n - 1>>

\* "{:d}".format(x) raises ValueError for a float
FormatDRaises(x) == x.ty = "float"

\* plotly figures: an identity, the traces in order, the axis titles
Figure(id, data, xaxis, yaxis) == [id |-> id, data |-> data, xaxis |-> xaxis, yaxis |-> yaxis]
Scatter(x, y, name) == [type |-> "scatter", x |-> x, y |-> y, name |-> name]
Heatmap == [type |-> "heatmap", x |-> <<>>, y |-> <<>>, name |-> 0 - 1]

\* what a slice call did: kind is "fig", "None" or "ValueError"; fig the
\* figure it returned; sel the bin it resolved the request to
Outcome(kind, fig, sel) == [kind |-> kind, fig |-> fig, sel |-> sel]

\* if fig is None: fig = go.Figure() -- fresh is the identity of a new figure
FigureOrNewAlways(fig, fresh) == Figure(fresh, <<>>, "", "")
FigureOrNew(fig, fresh) == IF fig = {} THEN Figure(fresh, <<>>, "", "") ELSE The(fig)

\* fig.add_trace(...); fig.update_xaxes(...); fig.update_yaxes(...)
AddTrace(f, tr, x_axis_title) == Figure(f.id, Append(f.data, tr), x_axis_title, "Amplitude [dB]")

\* rd_matrix = 10 * np.log10(np.abs(rd_matrix) ** 2), the slice functions'
\* only processing of the matrix (lines 329 and 420)
SliceMatrixNormalized(m) == FloorClamp(PeakSubtract(DBMatrix(m)), F(10))
SliceMatrix(m) == DBMatrix(m)

\* lines 337-351: the range bin of the request, {} when it is rejected
DopplerSliceBin(m, bistat_range, fs) ==
  IF bistat_range.v < 0 THEN {}
  ELSE IF fs # {}
  THEN LET d == FDiv(LightSpeed, The(fs))
           dist(i) == IAbs(i * d - bistat_range.v)
       IN  IF bistat_range.v > (m.nR - 1) * d THEN {}
           ELSE IF ArgMin(m.nR, dist) > m.nR - 1 THEN {}
           ELSE {Int_(ArgMin(m.nR, dist))}
  ELSE IF bistat_range.v > m.nR - 1 THEN {}
  ELSE {bistat_range}

\* plot_Doppler_slice(rd_matrix, bistat_range, fs=, max_Doppler=, fig=)
plot_Doppler_slice(m, bistat_range, fs, max_Doppler, fig, fresh) ==
  LET bin == DopplerSliceBin(m, bistat_range, fs)
  IN  IF bin = {} THEN Outcome("None", {}, {})
      ELSE IF FormatDRaises(The(bin)) THEN Outcome("ValueError", {}, {})
      ELSE LET k == The(bin).v
               db == SliceMatrix(m)
               doppler_scale == [i \in 1..m.nD |->
                   IF max_Doppler = {} THEN <<i - 1, 1>>
                   ELSE Linspace(The(max_Doppler), m.nD, i - 1)]
               x_axis_title == IF max_Doppler = {} THEN "Doppler frequency [bin]"
                               ELSE "Doppler frequency [Hz]"
               y == [i \in 1..m.nD |-> db.a[<<i - 1, k>>]]
           IN  Outcome("fig",
                       {AddTrace(FigureOrNew(fig, fresh), Scatter(doppler_scale, y, k), x_axis_title)},
                       {k})

\* lines 427-441 with the first test written >= instead of >
RangeSliceBinExclusive(m, Doppler_freq, max_Doppler) ==
  IF max_Doppler # {} /\ IAbs(Doppler_freq.v) >= The(max_Doppler)
  THEN [rejected |-> TRUE, raises |-> FALSE, bin |-> Doppler_freq]
  ELSE LET dist(i) ==
             IAbs(Linspace(The(max_Doppler), m.nD, i)[1]
                  - Doppler_freq.v * Linspace(The(max_Doppler), m.nD, i)[2])
           f == IF max_Doppler # {} THEN Int_(ArgMin(m.nD, dist)) ELSE Doppler_freq
       IN  IF f.v > m.nD - 1 \/ f.v < 0
           THEN [rejected |-> TRUE, raises |-> FormatDRaises(f), bin |-> f]
           ELSE [rejected |-> FALSE, raises |-> FALSE, bin |-> f]

\* lines 427-441: the Doppler bin of the request; rejected is TRUE when the
\* request ends in one of the three error branches, raises when that branch's
\* message cannot be formatted
RangeSliceBin(m, Doppler_freq, max_Doppler) ==
  IF max_Doppler # {} /\ IAbs(Doppler_freq.v) > The(max_Doppler)
  THEN [rejected |-> TRUE, raises |-> FALSE, bin |-> Doppler_freq]
  ELSE LET dist(i) ==
             IAbs(Linspace(The(max_Doppler), m.nD, i)[1]
                  - Doppler_freq.v * Linspace(The(max_Doppler), m.nD, i)[2])
           f == IF max_Doppler # {} THEN Int_(ArgMin(m.nD, dist)) ELSE Doppler_freq
       IN  IF f.v > m.nD - 1 \/ f.v < 0
           THEN [rejected |-> TRUE, raises |-> FormatDRaises(f), bin |-> f]
           ELSE [rejected |-> FALSE, raises |-> FALSE, bin |-> f]

\* plot_range_slice(rd_matrix, Doppler_freq, fs=, max_Doppler=, fig=)
plot_range_slice(m, Doppler_freq, fs, max_Doppler, fig, fresh) ==
  LET b == RangeSliceBin(m, Doppler_freq, max_Doppler)
  IN  IF b.rejected THEN Outcome(IF b.raises THEN "ValueError" ELSE "None", {}, {})
      ELSE IF FormatDRaises(b.bin) THEN Outcome("ValueError", {}, {})
      ELSE LET k == b.bin.v
               db == SliceMatrix(m)
               bistat_range_scale == [j \in 1..m.nR |->
                   IF fs = {} THEN <<j - 1, 1>>
                   ELSE <<(j - 1) * FDiv(LightSpeed, The(fs)), 1000>>]
               x_axis_title == IF fs = {} THEN "Bistatic range [bin]" ELSE "Bistatic range [km]"
               y == [j \in 1..m.nR |-> db.a[<<k, j - 1>>]]
           IN  Outcome("fig",
                       {AddTrace(FigureOrNew(fig, fresh), Scatter(bistat_range_scale, y, k), x_axis_title)},
                       {k})

\* ------------------------------------------------------------- inputs ---
Samples == {Z(0, 0), Z(-1, 0), Z(3, 4), Z(-6, 8)}
DynRanges == {F(-10), F(0), F(10)}
DynArgs == DynRanges \cup {None}

\* every matrix of a small shape
AllMatrices(nD, nR) == {Matrix(nD, nR, a) : a \in [Cells(nD, nR) -> Samples]}

\* a matrix of background b with one target t at cell p
Target(nD, nR, b, t, p) ==
  Matrix(nD, nR, [c \in Cells(nD, nR) |-> IF c = p THEN t ELSE b])

\* 16 x 26 holds the reference window of plot_rd_matrix only, 36 x 26 holds
\* the windows of both functions
Matrices ==
  AllMatrices(1, 3) \cup
  {Target(2, 2, b, t, <<1, 0>>) : b \in Samples, t \in Samples} \cup
  {Target(16, 26, Z(0, 0), Z(0, 0), <<0, 0>>),
   Target(16, 26, Z(0, 0), Z(-6, 8), <<0, 0>>),
   Target(16, 26, Z(-1, 0), Z(-6, 8), <<12, 20>>),
   Target(36, 26, Z(-1, 0), Z(3, 4), <<30, 20>>)}

\* the matrices given to the slice functions: 8 range bins, so that the last
\* bin is 7, where the 1 m grid and the doubles round 7*c/fs alike
SliceMatrices ==
  {Target(4, 8, Z(-1, 0), Z(-6, 8), <<1, 7>>),
   Target(4, 8, Z(3, 4), Z(0, 0), <<0, 0>>),
   Target(3, 8, Z(-6, 8), Z(-1, 0), <<2, 7>>),
   Target(1, 8, Z(-6, 8), Z(3, 4), <<0, 3>>)}
FsValues == {7, 9, 1000000}
MaxDopplers == {3, 10}

\* -------------------------------------------------------------- state ---
\* rd: the array object the caller holds; before: its content when the last
\* call began; sub: the local array after the peak subtraction; z: the matrix
\* the last call drew; dyn: the dyn_range it used; arg: the dyn_range it was
\* given; res: what it did; op: which call it was; again: how many times the
\* drawn matrix has been fed back in.
\* fig: the figure the caller holds ({} for none); held: the one it held when
\* the last slice call began; passed: the fig keyword of
\* the last slice call, as it was when the call began; ret: what the call did;
\* req: what the caller asked for; initial: the traces of the held figure when
\* the caller got it; passes: the successful slice calls it was passed to
VARIABLES rd, before, sub, z, dyn, arg, res, op, again,
          fig, held, passed, ret, req, initial, passes

normvars == <<before, sub, z, dyn, arg, res, op, again>>
slicevars == <<fig, held, passed, ret, req, initial, passes>>
vars == <<rd, normvars, slicevars>>

NoRequest ==
  [op |-> "none", unit |-> "bin", x |-> Int_(0), k |-> 0, fs |-> {}, max_Doppler |-> {},
   valid |-> FALSE]
Request(o, unit, x, k, fs, max_Doppler, valid) ==
  [op |-> o, unit |-> unit, x |-> x, k |-> k, fs |-> fs, max_Doppler |-> max_Doppler,
   valid |-> valid]

NoCompression ==
  /\ before = rd
  /\ sub = NoMatrix
  /\ z = NoMatrix
  /\ dyn = None
  /\ arg = None
  /\ res = "none"
  /\ op = "init"
  /\ again = 0

NoSlice ==
  /\ held = fig
  /\ passed = {}
  /\ ret = Outcome("none", {}, {})
  /\ req = NoRequest
  /\ initial = IF fig = {} THEN 0 ELSE Len(The(fig).data)
  /\ passes = 0

Init ==
  /\ rd \in Matrices
  /\ NoCompression
  /\ fig = {}
  /\ NoSlice

\* one call f(rd_matrix, dyn_range) on the matrix m
Call(m, dyn_range, doppler_cell_index, name, ok) ==
  \E r \in {DynamicRangeCompression(m, dyn_range, doppler_cell_index)} :
      /\ before' = m
      /\ rd' = r.caller
      /\ sub' = r.sub
      /\ z' = r.local
      /\ dyn' = r.dyn
      /\ arg' = dyn_range
      /\ res' = IF r.raised THEN "IndexError" ELSE ok
      /\ op' = name
      /\ UNCHANGED slicevars

export_rd_matrix_img ==
  /\ \E dyn_range \in DynArgs :
        Call(rd, dyn_range, export_doppler_cell_index, "export_rd_matrix_img", "image")
  /\ UNCHANGED again

plot_rd_matrix ==
  /\ \E dyn_range \in DynArgs :
        Call(rd, dyn_range, plot_doppler_cell_index, "plot_rd_matrix", "fig")
  /\ UNCHANGED again

\* the caller feeds the heatmap's z of a plot_rd_matrix figure back in, with
\* the same explicit dyn_range
plot_rd_matrix_again ==
  /\ op \in {"plot_rd_matrix", "again"}
  /\ res = "fig"
  /\ arg # None
  /\ again < MaxAgain
  /\ again' = again + 1
  /\ Call(MapM(z, AsSample), arg, plot_doppler_cell_index, "again", "fig")

Next == export_rd_matrix_img \/ plot_rd_matrix \/ plot_rd_matrix_again

Spec == Init /\ [][Next]_vars

\* ------------------------------------------------------- slice calls ----
\* the identity of the next go.Figure()
Fresh == IF fig = {} THEN 1 ELSE The(fig).id + 1

\* the caller may pass the figure it holds, while the model has room
MayPass(figArg, keep) ==
  IF figArg = {} THEN (keep => Fresh <= MaxFigs)
  ELSE figArg = fig /\ Len(The(fig).data) < MaxTraces

\* the caller's side of a slice call that ended with outcome o: a figure that
\* was passed is the object the caller holds; a new one is kept when keep
Returned(o, figArg, keep, request) ==
  /\ ret' = o
  /\ held' = fig
  /\ passed' = figArg
  /\ req' = request
  /\ fig' = IF o.kind = "fig" /\ (figArg # {} \/ keep) THEN o.fig ELSE fig
  /\ initial' = IF o.kind = "fig" /\ figArg = {} /\ keep THEN Len(The(o.fig).data) ELSE initial
  /\ passes' = IF o.kind # "fig" THEN passes
               ELSE IF figArg # {} THEN passes + 1
               ELSE IF keep THEN 0 ELSE passes
  /\ UNCHANGED <<rd, normvars>>

\* plot_Doppler_slice(rd, x) with x a bin of Bins, no further than one past the
\* last, as an int or as a float
DopplerSliceByBin(Bins, MaxOpts, Figs, keep) ==
  \E v \in Bins, ty \in {"int", "float"}, max_Doppler \in MaxOpts, figArg \in Figs :
     /\ v <= rd.nR
     /\ MayPass(figArg, keep)
     /\ Returned(plot_Doppler_slice(rd, [ty |-> ty, v |-> v], {}, max_Doppler, figArg, Fresh),
                 figArg, keep,
                 Request("plot_Doppler_slice", "bin", [ty |-> ty, v |-> v], v, {}, max_Doppler,
                         0 <= v /\ v <= rd.nR - 1))

\* plot_Doppler_slice(rd, k * c / fs, fs=fs) for a bin k of Ks, and for the
\* distance one bin past the last (k = nR)
DopplerSliceByRange(Fss, Ks, Figs, keep) ==
  \E fs \in Fss, k \in Ks, figArg \in Figs :
     \E x \in {Float_(IF k < rd.nR THEN FDiv(k * LightSpeed, fs)
                     ELSE k * FDiv(LightSpeed, fs))} :
        /\ k <= rd.nR
        /\ MayPass(figArg, keep)
        /\ Returned(plot_Doppler_slice(rd, x, {fs}, {}, figArg, Fresh), figArg, keep,
                    Request("plot_Doppler_slice", "m", x, k, {fs}, {}, k <= rd.nR - 1))

\* plot_range_slice(rd, x) with x a bin of Bins, no further than one past the
\* last, as an int or as a float
RangeSliceByBin(Bins, FsOpts, Figs, keep) ==
  \E v \in Bins, ty \in {"int", "float"}, fs \in FsOpts, figArg \in Figs :
     /\ v <= rd.nD
     /\ MayPass(figArg, keep)
     /\ Returned(plot_range_slice(rd, [ty |-> ty, v |-> v], fs, {}, figArg, Fresh),
                 figArg, keep,
                 Request("plot_range_slice", "bin", [ty |-> ty, v |-> v], v, fs, {},
                         0 <= v /\ v <= rd.nD - 1))

\* plot_range_slice(rd, f, max_Doppler=max_Doppler) with f in Hz, counted down
\* from one above +max_Doppler by the steps of Down, to one below -max_Doppler
RangeSliceByFreq(Max, Down, Figs, keep) ==
  \E max_Doppler \in Max, o \in Down, figArg \in Figs :
     \E f \in {max_Doppler + 1 - o} :
        /\ o <= 2 * max_Doppler + 2
        /\ MayPass(figArg, keep)
        /\ Returned(plot_range_slice(rd, Float_(f), {}, {max_Doppler}, figArg, Fresh),
                    figArg, keep,
                    Request("plot_range_slice", "Hz", Float_(f), f, {}, {max_Doppler},
                            IAbs(f) <= max_Doppler))

\* every request, each call on its own: no figure is passed or kept
InitSlice ==
  /\ rd \in SliceMatrices
  /\ NoCompression
  /\ fig = {}
  /\ NoSlice

NextSlice ==
  \/ DopplerSliceByBin((0 - 1)..9, {{}, {3}}, {{}}, FALSE)
  \/ DopplerSliceByRange(FsValues, 0..8, {{}}, FALSE)
  \/ RangeSliceByBin((0 - 1)..9, {{}, {9}}, {{}}, FALSE)
  \/ RangeSliceByFreq(MaxDopplers, 0..22, {{}}, FALSE)

SpecSlice == InitSlice /\ [][NextSlice]_vars

\* slices accumulated on figures: the caller starts with no figure, an empty
\* one or a plot_rd_matrix heatmap, passes the figure it holds or none, and
\* keeps what it gets back; the requests are the last bin, the one past it,
\* and their distances and frequencies
InitFig ==
  /\ rd \in {Target(2, 8, Z(-1, 0), Z(-6, 8), <<1, 7>>)}
  /\ NoCompression
  /\ fig \in {{}, {Figure(1, <<>>, "", "")},
              {Figure(1, <<Heatmap>>, "Bistatic range [bin]", "Doppler frequency [bin]")}}
  /\ NoSlice

NextFig ==
  \/ DopplerSliceByBin({7, 8}, {{}}, {{}, fig}, TRUE)
  \/ DopplerSliceByRange({9, 1000000}, {7, 8}, {{}, fig}, TRUE)
  \/ RangeSliceByBin({0, 2}, {{}}, {{}, fig}, TRUE)
  \/ RangeSliceByFreq({3}, {0, 1}, {{}, fig}, TRUE)

SpecFig == InitFig /\ [][NextFig]_vars

\* ---------------------------------- properties of the compression -------
\* the last call was one of the two heatmap functions and ran to its end
Compressed == op \in {"export_rd_matrix_img", "plot_rd_matrix", "again"} /\ res \in {"image", "fig"}

\* the last call raised out of the window loops
Raised == op \in {"export_rd_matrix_img", "plot_rd_matrix", "again"} /\ res = "IndexError"

\* the matrix has a largest magnitude that is finite and not zero
HasPeak(m) == \E x \in {MaxAbs(m)} : x.k = "fin" /\ x.n > 0

\* every sample of the matrix is a finite number
AllFinite(m) == \A s \in Values(m) : s.k = "fin"

\* C1 as stated: after the compression the maximum of the matrix is exactly
\* 0 dB, for every input matrix and every dyn_range.
C1_PeakIsZero == Compressed => MaxDB(z) = F(0)

\* C1, amended: for every matrix with a finite non-zero peak magnitude and
\* every dyn_range that is estimated or supplied as a value >= 0, the maximum
\* of the compressed matrix is exactly 0 dB.
C1_PeakIsZeroForNonDegenerateInput ==
  (Compressed /\ HasPeak(before) /\ (arg = None \/ ~Lt(arg, F(0)))) => MaxDB(z) = F(0)

\* an estimated dynamic range clamps a cell and leaves the peak at 0 dB
C1_Witness ==
  /\ Compressed /\ arg = None /\ HasPeak(before) /\ dyn.k = "fin"
  /\ \E c \in Cells(z.nD, z.nR) : z.a[c] = Neg(dyn) /\ sub.a[c] # z.a[c]
  /\ \E c \in Cells(z.nD, z.nR) : z.a[c] = F(0)

\* C2: after the compression no cell is below -dyn_range, and every cell that
\* was below -dyn_range after the peak subtraction is exactly -dyn_range.
C2_FloorHoldsForEveryCell ==
  Compressed =>
    \A c \in Cells(z.nD, z.nR) :
       /\ ~Lt(z.a[c], Neg(dyn))
       /\ Lt(sub.a[c], Neg(dyn)) => z.a[c] = Neg(dyn)
       /\ ~Lt(sub.a[c], Neg(dyn)) => z.a[c] = sub.a[c]

\* a finite cell and a zero-power cell (-inf dB) are both raised to the floor
\* in the last column of a matrix whose peak stays above it
C2_Witness ==
  /\ Compressed /\ dyn.k = "fin" /\ z.nR > 1
  /\ \E c \in Cells(z.nD, z.nR) : c[2] = z.nR - 1 /\ sub.a[c].k = "fin" /\ Lt(sub.a[c], Neg(dyn))
  /\ \E c \in Cells(z.nD, z.nR) : sub.a[c] = NegInf /\ z.a[c] = Neg(dyn)
  /\ \E c \in Cells(z.nD, z.nR) : Lt(Neg(dyn), z.a[c])

\* C3 as stated: normalising (dB conversion, peak subtraction, floor clamp) a
\* matrix that is already the output of the normalisation with the same
\* explicit dyn_range returns it unchanged.
C3_NormalizeIsIdempotent == (op = "again" /\ res = "fig") => z = MapM(before, AsReal)

\* C3, amended: for a matrix of finite samples and an explicit dyn_range, the
\* peak subtraction and the floor clamp are idempotent on the normalised
\* matrix (reapplying them returns it cell for cell, nan cells staying nan);
\* the dB conversion is not, so the whole normalisation is not idempotent.
C3_PeakAndClampAreIdempotent ==
  (Compressed /\ arg # None /\ AllFinite(before)) => FloorClamp(PeakSubtract(z), arg) = z

\* a normalised matrix with a clamped cell and a peak was fed back in, and
\* came out different
C3_Witness ==
  /\ op = "again" /\ res = "fig" /\ AllFinite(before)
  /\ \E c \in Cells(before.nD, before.nR) : before.a[c].re < 0
  /\ \E c \in Cells(before.nD, before.nR) : before.a[c].re = 0
  /\ z # MapM(before, AsReal)

\* C8 as stated: after any call of export_rd_matrix_img or plot_rd_matrix the
\* caller's matrix has been changed by the transform.
C8_CallerMatrixIsTransformed == Compressed => rd # before

\* C8, amended: with dyn_range supplied the caller's matrix is left as it
\* was; with dyn_range estimated every sample of it has been divided in place
\* by the peak magnitude (also when the call then raises), and nothing else:
\* the dB conversion, peak subtraction and clamp act on a new array.
C8_OnlyThePeakScalingIsInPlace ==
  (Compressed \/ Raised) =>
     /\ arg # None => rd = before
     /\ arg = None =>
          /\ rd.nD = before.nD /\ rd.nR = before.nR
          /\ \E mx \in {MaxAbs(before)} :
               \A c \in Cells(rd.nD, rd.nR) : rd.a[c] = ZDiv(before.a[c], mx)

\* an estimating call changed the caller's samples to peak-scaled samples
\* while drawing decibels
C8_Witness ==
  /\ Compressed /\ arg = None /\ rd # before /\ HasPeak(before)
  /\ MaxAbs(rd) = R(1, 1)
  /\ \E c \in Cells(z.nD, z.nR) : Lt(z.a[c], F(0))

\* the reference window of the function that was called does not lie inside
\* the matrix it was given
WindowOutside ==
  \E dci \in {IF op = "export_rd_matrix_img" THEN export_doppler_cell_index
              ELSE plot_doppler_cell_index} :
     \/ dci + window_width >= before.nD
     \/ range_cell_index + window_length >= before.nR

\* C10 as stated: with dyn_range not supplied and the reference window outside
\* the matrix, the call does not raise and ends with an inf/nan dynamic range.
C10_WindowOutsideYieldsInfNan ==
  ((Compressed \/ Raised) /\ arg = None /\ WindowOutside) =>
     res # "IndexError" /\ dyn.k \in {"pinf", "nan"}

\* C10, amended: with dyn_range not supplied and the reference window outside
\* the matrix, the call raises an IndexError that nothing catches, after the
\* in-place peak scaling, and draws nothing; an inf or nan dynamic range is
\* estimated only from a window inside the matrix.
C10_WindowOutsideRaises ==
  (Compressed \/ Raised) =>
     /\ (arg = None /\ WindowOutside) => (res = "IndexError" /\ z = NoMatrix /\ dyn = None)
     /\ res = "IndexError" => (arg = None /\ WindowOutside)
     /\ (arg = None /\ dyn.k \in {"pinf", "nan"}) => ~WindowOutside

\* export_rd_matrix_img raised on a matrix that holds plot_rd_matrix's window
\* but not its own, after scaling the caller's samples
C10_Witness ==
  /\ Raised /\ op = "export_rd_matrix_img" /\ before.nD = 16 /\ rd # before

\* ----------------------------------------- properties of the slices -----
\* the last call was a slice call that returned a figure
Sliced == ret.kind = "fig"

\* the trace the last slice call added
LastTrace == The(ret.fig).data[Len(The(ret.fig).data)]

\* C4: with fs given and bistat_range = k * c / fs, 0 <= k <= N-1,
\* plot_Doppler_slice selects column k, as the call with bistat_range = k and
\* no fs does, and does not reject the request as out of range.
C4_DistanceSelectsTheBin ==
  (req.op = "plot_Doppler_slice" /\ req.unit = "m" /\ req.valid) =>
     (Sliced /\ ret.sel = {req.k})

\* C5: a slice request whose target is invalid (a bin below 0 or above
\* size-1, a range beyond the last bin, a frequency with |f| > max_Doppler)
\* returns None without raising and appends no trace to a supplied figure.
C5_InvalidTargetReturnsNone ==
  (req.op # "none" /\ ~req.valid) => (ret.kind = "None" /\ fig = held)

C7_SlicesPlotNormalizedValues ==
  Sliced =>
    \E d \in DynRanges \cup {F(30), PosInf}, k \in ret.sel :
     \E n \in {FloorClamp(PeakSubtract(DBMatrix(rd)), d)} :
       IF req.op = "plot_Doppler_slice"
       THEN LastTrace.y = [i \in 1..rd.nD |-> n.a[<<i - 1, k>>]]
       ELSE LastTrace.y = [j \in 1..rd.nR |-> n.a[<<k, j - 1>>]]

\* C7, amended: the slice functions apply the dB conversion only; the values
\* they plot are the column / row of 10*log10(|x|^2), with no peak
\* subtraction and no floor clamp.
C7_SlicesPlotRawDecibels ==
  Sliced =>
    \E k \in ret.sel :
       IF req.op = "plot_Doppler_slice"
       THEN LastTrace.y = [i \in 1..rd.nD |-> TenLog10(Sq(Abs(rd.a[<<i - 1, k>>])))]
       ELSE LastTrace.y = [j \in 1..rd.nR |-> TenLog10(Sq(Abs(rd.a[<<k, j - 1>>])))]

\* a range slice was plotted with a value above 0 dB and an unclamped -inf
C7_Witness ==
  /\ Sliced /\ req.op = "plot_range_slice"
  /\ \E j \in DOMAIN LastTrace.y : Lt(F(0), LastTrace.y[j])
  /\ \E j \in DOMAIN LastTrace.y : LastTrace.y[j] = NegInf

\* C9: every successful slice call appends exactly one line trace to the
\* figure it returns: with no fig the figure is new and holds one trace; with
\* a supplied fig the same figure is returned, its earlier traces kept in
\* order and one added; so a figure passed to n successful calls holds its
\* initial traces plus n.
C9_OneTraceAppended ==
  /\ Sliced =>
       \E f \in ret.fig :
          /\ LastTrace.type = "scatter"
          /\ passed = {} =>
               /\ Len(f.data) = 1
               /\ \A h \in held : h.id # f.id
          /\ passed # {} =>
               \E g \in passed :
                  /\ held = passed /\ fig = ret.fig
                  /\ f.id = g.id
                  /\ Len(f.data) = Len(g.data) + 1
                  /\ SubSeq(f.data, 1, Len(g.data)) = g.data
  /\ \A f \in fig : Len(f.data) = initial + passes

\* a heatmap figure was passed to two successful slice calls and holds the
\* heatmap and the two slices, in that order
C9_Witness ==
  /\ Sliced /\ passed # {} /\ initial = 1 /\ passes = 2
  /\ \E f \in fig : Len(f.data) = 3 /\ f.data[1] = Heatmap /\ f.data[2] # f.data[3]
====
